---- MODULE Spec2Model ----
(***************************************************************************)
(* Model of generate_components.py: one run of main() walks the SBOM root, *)
(* extracts the component records of every *.json file, sorts them and     *)
(* writes data/components.json.  The filesystem (SBOM tree, output         *)
(* directory, output file) is the persistent state; the locals of main()   *)
(* are the state of the running process.                                   *)
(*                                                                         *)
(* Strings are sequences of one-character strings, so that path handling   *)
(* (suffix matching, stem, joining) and Python's code-point ordering are   *)
(* computed rather than assumed.  JSON values are tagged records:          *)
(*   [t |-> "str", v |-> chars]   [t |-> "null"]                           *)
(*   [t |-> "arr", v |-> seq]     [t |-> "obj", v |-> record of members]   *)
(* A member whose value is Absent stands for a key that is not in the      *)
(* object.  Numbers and booleans are not among the modelled inputs.        *)
(***************************************************************************)
EXTENDS Integers, Sequences, FiniteSets, TLC

\* ------------------------------------------------------------------ bounds
\* Largest number of *.json files put under the SBOM root.
MaxFiles == 2
\* Largest number of entries in a component's `licenses` array.
MaxLic == 2
\* Number of consecutive runs of main() that are followed.
MaxRuns == 2

\* ----------------------------------------------------------------- strings
\* Unicode code points of the characters that occur in the modelled inputs.
CodePoint(c) ==
    CASE c = "-" -> 45   [] c = "." -> 46   [] c = "/" -> 47
      [] c = "0" -> 48   [] c = "1" -> 49   [] c = "2" -> 50
      [] c = "A" -> 65   [] c = "G" -> 71   [] c = "I" -> 73
      [] c = "L" -> 76   [] c = "M" -> 77   [] c = "P" -> 80
      [] c = "T" -> 84   [] c = "a" -> 97   [] c = "b" -> 98
      [] c = "c" -> 99   [] c = "d" -> 100  [] c = "e" -> 101
      [] c = "g" -> 103  [] c = "h" -> 104  [] c = "i" -> 105
      [] c = "j" -> 106  [] c = "l" -> 108  [] c = "m" -> 109
      [] c = "n" -> 110  [] c = "o" -> 111  [] c = "p" -> 112
      [] c = "s" -> 115  [] c = "t" -> 116  [] c = "u" -> 117
      [] c = "x" -> 120

\* Python's str.__lt__: lexicographic by code point, a proper prefix is less.
RECURSIVE StrLess(_, _)
StrLess(a, b) ==
    IF b = <<>> THEN FALSE
    ELSE IF a = <<>> THEN TRUE
    ELSE IF Head(a) = Head(b) THEN StrLess(Tail(a), Tail(b))
    ELSE CodePoint(Head(a)) < CodePoint(Head(b))

\* "/".join(parts)
RECURSIVE JoinSlash(_)
JoinSlash(parts) ==
    IF parts = <<>> THEN <<>>
    ELSE IF Len(parts) = 1 THEN parts[1]
    ELSE parts[1] \o <<"/">> \o JoinSlash(Tail(parts))

\* str.endswith
EndsWith(s, suffix) ==
    /\ Len(s) >= Len(suffix)
    /\ SubSeq(s, Len(s) - Len(suffix) + 1, Len(s)) = suffix

\* str.rfind("."), 0-based as in Python; -1 when there is no dot.
RFindDot(name) ==
    LET dots == {i \in 1..Len(name) : name[i] = "."}
    IN IF dots = {} THEN -1
       ELSE (CHOOSE i \in dots : \A j \in dots : j <= i) - 1

\* pathlib.PurePath.stem: the name without its last suffix; a name whose only
\* dot is the leading one, or that ends with a dot, has no suffix.
Stem(name) ==
    LET i == RFindDot(name)
    IN IF 0 < i /\ i < Len(name) - 1 THEN SubSeq(name, 1, i) ELSE name

\* ------------------------------------------------------------- JSON values
Absent == [t |-> "absent"]
JNull == [t |-> "null"]
JStr(s) == [t |-> "str", v |-> s]
JArr(s) == [t |-> "arr", v |-> s]
JObj(r) == [t |-> "obj", v |-> r]

EmptyStr == JStr(<<>>)
EmptyList == JArr(<<>>)
\* The {} used as a default of dict.get: an object without members.
EmptyDict == JObj([none |-> Absent])

\* isinstance(x, dict)
IsDict(x) == x.t = "obj"

\* dict.get(key, default)
Get(d, key, default) ==
    IF key \in DOMAIN d.v /\ d.v[key] # Absent THEN d.v[key] ELSE default

\* Python truthiness of a JSON value.
Truthy(x) ==
    CASE x.t = "null" -> FALSE
      [] x.t = "str" -> x.v # <<>>
      [] x.t = "arr" -> x.v # <<>>
      [] x.t = "obj" -> \E k \in DOMAIN x.v : x.v[k] # Absent

\* a or b
Or(a, b) == IF Truthy(a) THEN a ELSE b

\* --------------------------------------------------------------- exceptions
\* The outcome of a call: it returns a value or an exception leaves it.
Raised == [ok |-> FALSE]
Returned(x) == [ok |-> TRUE, val |-> x]

\* What a `for` statement iterates over: the elements of an array, the
\* characters of a string; None is not iterable (TypeError).
CanIterate(x) == x.t \in {"arr", "str"}
Items(x) ==
    IF x.t = "arr" THEN x.v ELSE [i \in 1..Len(x.v) |-> JStr(<<x.v[i]>>)]

\* ------------------------------------------------------- paths under the root
\* A path is kept relative to SBOM_ROOT: the sequence of its segments.
\* Path.relative_to(SBOM_ROOT).as_posix()
PosixPath(rel) == JoinSlash(rel)

\* rglob("*.json") matches on the last segment.
MatchesJson(rel) == EndsWith(rel[Len(rel)], <<".", "j", "s", "o", "n">>)

\* relative_to(SBOM_ROOT) cannot raise for a path that rglob produced under
\* SBOM_ROOT, so the ValueError branch (lines 75-76) is never taken.
infer_project_name_from_path_NoStem(rel) == JoinSlash(rel)
infer_project_name_from_path(rel) ==
    LET parts == [i \in 1..Len(rel) |->
                     IF i = Len(rel) THEN Stem(rel[i]) ELSE rel[i]]
    IN JoinSlash(parts)

\* ------------------------------------------------ extract_components_from_sbom
\* Lines 46-51: the loop over the license entries, `licenses` accumulated.
RECURSIVE LicensesLoop_NameFirst(_, _)
LicensesLoop_NameFirst(entries, licenses) ==
    IF entries = <<>> THEN Returned(licenses)
    ELSE LET l == Head(entries)
         IN IF ~IsDict(l) THEN Raised
            ELSE LET lic == Get(l, "license", EmptyDict)
                     lic_id == IF IsDict(lic)
                               THEN Or(Get(lic, "name", JNull), Get(lic, "id", JNull))
                               ELSE JNull
                 IN LicensesLoop_NameFirst(Tail(entries),
                                           IF IsDict(lic) /\ Truthy(lic_id)
                                           THEN Append(licenses, lic_id)
                                           ELSE licenses)
RECURSIVE LicensesLoop(_, _)
LicensesLoop(entries, licenses) ==
    IF entries = <<>> THEN Returned(licenses)
    ELSE LET l == Head(entries)
         IN IF ~IsDict(l) THEN Raised
            ELSE LET lic == Get(l, "license", EmptyDict)
                     lic_id == IF IsDict(lic)
                               THEN Or(Get(lic, "id", JNull), Get(lic, "name", JNull))
                               ELSE JNull
                 IN LicensesLoop(Tail(entries),
                                 IF IsDict(lic) /\ Truthy(lic_id)
                                 THEN Append(licenses, lic_id)
                                 ELSE licenses)

\* Lines 39-66: the record of one component entry c.
ComponentRecord(rel, project_name, project_version, project_group, c) ==
    IF ~IsDict(c) THEN Raised
    ELSE LET lics == Or(Get(c, "licenses", EmptyList), EmptyList)
         IN IF ~CanIterate(lics) THEN Raised
            ELSE LET licenses == LicensesLoop(Items(lics), <<>>)
                 IN IF ~licenses.ok THEN Raised
                    ELSE Returned(
                        [project_name |-> project_name,
                         project_version |-> project_version,
                         project_group |-> project_group,
                         sbom_path |-> JStr(PosixPath(rel)),
                         component_name |-> Get(c, "name", EmptyStr),
                         component_version |-> Get(c, "version", EmptyStr),
                         component_group |-> Get(c, "group", EmptyStr),
                         component_type |-> Get(c, "type", EmptyStr),
                         purl |-> Get(c, "purl", EmptyStr),
                         licenses |-> licenses.val])

\* Lines 37-68: the loop over `components`, `results` accumulated.
RECURSIVE ComponentsLoop(_, _, _, _, _, _)
ComponentsLoop(rel, project_name, project_version, project_group, cs, results) ==
    IF cs = <<>> THEN Returned(results)
    ELSE LET r == ComponentRecord(rel, project_name, project_version,
                                  project_group, Head(cs))
         IN IF ~r.ok THEN Raised
            ELSE ComponentsLoop(rel, project_name, project_version,
                                project_group, Tail(cs), Append(results, r.val))

\* Lines 22-27: open and json.load.  A file's content either parses to a JSON
\* value or makes open/json.load raise (invalid JSON, undecodable bytes, I/O
\* error); `except Exception` turns every such failure into `return []`.
LoadFails(content) == content.parse = "error"

\* Lines 29-68, for the parsed document `data`.
ExtractParsed(rel, data) ==
    IF ~IsDict(data) THEN Raised
    ELSE LET components == Get(data, "components", EmptyList)
             metadata == Get(data, "metadata", EmptyDict)
         IN IF ~IsDict(metadata) THEN Raised
            ELSE LET meta_component == Get(metadata, "component", EmptyDict)
                 IN IF ~IsDict(meta_component) THEN Raised
                    ELSE LET project_name ==
                                 Or(Get(meta_component, "name", JNull),
                                    JStr(infer_project_name_from_path(rel)))
                             project_version == Get(meta_component, "version", EmptyStr)
                             project_group == Get(meta_component, "group", EmptyStr)
                         IN IF ~CanIterate(components) THEN Raised
                            ELSE ComponentsLoop(rel, project_name, project_version,
                                                project_group, Items(components), <<>>)

extract_components_from_sbom_NoCatch(rel, content) ==
    IF LoadFails(content) THEN Raised ELSE ExtractParsed(rel, content.data)
extract_components_from_sbom(rel, content) ==
    IF LoadFails(content) THEN Returned(<<>>) ELSE ExtractParsed(rel, content.data)

\* ------------------------------------------------------------ the sort key
\* Line 106: key=lambda x: (project_name, component_name, component_version)
KeyOf_NoVersion(x) == <<x.project_name, x.component_name>>
KeyOf(x) == <<x.project_name, x.component_name, x.component_version>>

\* Python compares two key tuples at the first position where they are not
\* equal.  Two strings compare by code point; any other two unequal values
\* among the modelled ones (None against a string) raise TypeError.
FirstDiff(k1, k2) ==
    LET d == {i \in 1..Len(k1) : k1[i] # k2[i]}
    IN IF d = {} THEN 0 ELSE CHOOSE i \in d : \A j \in d : i <= j

KeyRaises(k1, k2) ==
    LET i == FirstDiff(k1, k2)
    IN i # 0 /\ ~(k1[i].t = "str" /\ k2[i].t = "str")

KeyLess(k1, k2) ==
    LET i == FirstDiff(k1, k2)
    IN i # 0 /\ StrLess(k1[i].v, k2[i].v)

\* list.sort raises as soon as it compares two keys that cannot be ordered; a
\* comparison sort cannot finish without having compared every two elements
\* that end up adjacent, so it raises exactly when some two keys cannot be.
SortRaises(xs) ==
    \E i, j \in 1..Len(xs) : KeyRaises(KeyOf(xs[i]), KeyOf(xs[j]))

\* list.sort is stable: an element goes after every element not greater.
RECURSIVE InsertUnstable(_, _)
InsertUnstable(sorted, x) ==
    IF sorted = <<>> THEN <<x>>
    ELSE IF ~KeyLess(KeyOf(Head(sorted)), KeyOf(x)) THEN <<x>> \o sorted
    ELSE <<Head(sorted)>> \o InsertUnstable(Tail(sorted), x)
RECURSIVE InsertSorted(_, _)
InsertSorted(sorted, x) ==
    IF sorted = <<>> THEN <<x>>
    ELSE IF KeyLess(KeyOf(x), KeyOf(Head(sorted))) THEN <<x>> \o sorted
    ELSE <<Head(sorted)>> \o InsertSorted(Tail(sorted), x)

RECURSIVE SortedByKey(_)
SortedByKey(xs) ==
    IF xs = <<>> THEN <<>>
    ELSE InsertSorted(SortedByKey(SubSeq(xs, 1, Len(xs) - 1)), xs[Len(xs)])

\* --------------------------------------------------------------- the inputs
MIT == JStr(<<"M", "I", "T">>)
Apache20 == JStr(<<"A", "p", "a", "c", "h", "e", "-", "2", ".", "0">>)
GPL == JStr(<<"G", "P", "L">>)
NameP == JStr(<<"p">>)
NameA == JStr(<<"a">>)
NameB == JStr(<<"b">>)
Ver1 == JStr(<<"1">>)
Ver2 == JStr(<<"2">>)
Purl1 == JStr(<<"u", "1">>)
Purl2 == JStr(<<"u", "2">>)
TypeLib == JStr(<<"l", "i", "b">>)
GroupG == JStr(<<"g">>)

\* Entries under the SBOM root, relative to it.
PathTeams ==
    << <<"t", "e", "a", "m", "s">>, <<"a", "l", "p", "h", "a">>,
       <<"s", "b", "o", "m", ".", "j", "s", "o", "n">> >>
PathAB == << <<"a", ".", "b", ".", "j", "s", "o", "n">> >>
PathDot == << <<"t", "e", "a", "m", "s">>, <<".", "j", "s", "o", "n">> >>
PathNotes == << <<"n", "o", "t", "e", "s", ".", "t", "x", "t">> >>
PathDir == << <<"d", ".", "j", "s", "o", "n">> >>
JsonPaths == {PathTeams, PathAB, PathDot}

\* A file's content.
Unparsable == [parse |-> "error"]
Parses(data) == [parse |-> "ok", data |-> data]
FileNode(content) == [kind |-> "file", content |-> content]
DirNode == [kind |-> "dir"]

\* JSON objects of the CycloneDX shape; Absent members are missing keys.
Component(name, version, group, purl, type, licenses) ==
    JObj([name |-> name, version |-> version, group |-> group, purl |-> purl,
          type |-> type, licenses |-> licenses])
Document(metadata, components) ==
    JObj([metadata |-> metadata, components |-> components])
Metadata(component) == JObj([component |-> component])
MetaComponent(name, version, group) ==
    JObj([name |-> name, version |-> version, group |-> group])
LicenseEntry(license) == JObj([license |-> license])
License(id, name) == JObj([id |-> id, name |-> name])

\* The documents the trees are built from.
\* Not JSON at all.
DocMalformed == Unparsable
\* Valid JSON whose top level is an array.
DocArray == Parses(EmptyList)
\* "metadata": null
DocNullMeta == Parses(Document(JNull, EmptyList))
\* The empty object: no metadata, no components.
DocEmpty == Parses(Document(Absent, Absent))
\* A named project; components out of order, licences by id and by name.
DocP ==
    Parses(Document(
        Metadata(MetaComponent(NameP, Ver1, Absent)),
        JArr(<< Component(NameB, Ver2, GroupG, Purl1, TypeLib,
                          JArr(<<LicenseEntry(License(MIT, Absent)),
                                 LicenseEntry(License(Absent, Apache20))>>)),
                Component(NameA, Ver2, Absent, Absent, Absent, Absent),
                Component(NameA, Ver1, Absent, Absent, Absent, Absent) >>)))
\* No project name; two components with the same key and different purl.
DocTies ==
    Parses(Document(
        Absent,
        JArr(<< Component(NameA, Ver1, Absent, Purl1, Absent, Absent),
                Component(NameA, Ver1, Absent, Purl2, Absent, Absent) >>)))
\* A named project with a component whose name is null.
DocNullName ==
    Parses(Document(
        Metadata(MetaComponent(NameP, Absent, Absent)),
        JArr(<< Component(JNull, Ver1, Absent, Absent, Absent, JNull) >>)))
DocPool ==
    {DocMalformed, DocArray, DocNullMeta, DocEmpty, DocP, DocTies, DocNullName}

\* Every shape of one entry of a `licenses` array.
LicenseValues ==
    {Absent, JNull, MIT}
    \cup {License(id, name) : id \in {Absent, EmptyStr, JNull, MIT},
                              name \in {Absent, EmptyStr, Apache20}}
LicenseEntries == {LicenseEntry(x) : x \in LicenseValues} \cup {GPL}
LicensesValues ==
    {Absent, JNull}
    \cup {JArr(s) : s \in UNION {[1..n -> LicenseEntries] : n \in 0..MaxLic}}
\* A document with one component and the given `licenses`.
DocLicenses(licenses) ==
    Parses(Document(
        Metadata(MetaComponent(EmptyStr, Absent, Absent)),
        JArr(<< Component(NameA, Ver1, Absent, Absent, Absent, licenses) >>)))

\* Under the root there is always a file that is no *.json and a directory
\* whose name ends in .json.
TreeOf(files) ==
    [p \in DOMAIN files \cup {PathNotes, PathDir} |->
        IF p \in DOMAIN files THEN FileNode(files[p])
        ELSE IF p = PathDir THEN DirNode ELSE FileNode(Unparsable)]
Trees ==
    {TreeOf(f) : f \in UNION {[S -> DocPool] :
                     S \in {T \in SUBSET JsonPaths : Cardinality(T) <= MaxFiles}}}
LicenseTrees ==
    {TreeOf([p \in {PathAB} |-> DocLicenses(l)]) : l \in LicensesValues}

\* The output file: missing, or holding a JSON array of records.
NoFile == [exists |-> FALSE]
FileOf(records) == [exists |-> TRUE, records |-> records]
\* What an earlier run, over another tree, left behind.
StaleFile ==
    FileOf(<< [project_name |-> JStr(<<"o", "l", "d">>),
               project_version |-> EmptyStr, project_group |-> EmptyStr,
               sbom_path |-> JStr(<<"o", "l", "d", ".", "j", "s", "o", "n">>),
               component_name |-> NameA, component_version |-> Ver1,
               component_group |-> EmptyStr, component_type |-> EmptyStr,
               purl |-> EmptyStr, licenses |-> <<>>] >>)

\* ------------------------------------------------------------------- state
VARIABLES
    rootExists,     \* SBOM_ROOT.exists()
    tree,           \* the entries under SBOM_ROOT: path -> node
    outDirExists,   \* OUTPUT_DIR exists
    outFile,        \* OUTPUT_FILE
    pc,             \* where main() is
    exitCode,       \* the process's exit status, -1 while it runs
    sbom_files,     \* main's sbom_files
    idx,            \* position of the for loop in sbom_files
    all_components, \* main's all_components
    runs,           \* number of the current run
    aggregated,     \* history: all_components as it was before the sort
    outDir0,        \* history: outDirExists when the run started
    outFile0,       \* history: outFile when the run started
    opens,          \* history: times OUTPUT_FILE was opened for writing
    fsWrites,       \* history: filesystem modifications made by the run
    prevPc,         \* history: how the previous run ended
    prevOrder,      \* history: sbom_files of the previous run
    prevOut         \* history: outFile when the previous run ended

vars ==
    <<rootExists, tree, outDirExists, outFile, pc, exitCode, sbom_files, idx,
      all_components, runs, aggregated, outDir0, outFile0, opens, fsWrites,
      prevPc, prevOrder, prevOut>>

fsvars == <<rootExists, tree>>
prevvars == <<prevPc, prevOrder, prevOut>>

Init ==
    /\ \/ /\ rootExists = TRUE
          /\ tree \in Trees \cup LicenseTrees
       \/ /\ rootExists = FALSE
          /\ tree = [p \in {} |-> DirNode]
    /\ \/ outDirExists = FALSE /\ outFile = NoFile
       \/ outDirExists = TRUE /\ outFile = StaleFile
    /\ pc = "start"
    /\ exitCode = -1
    /\ sbom_files = <<>>
    /\ idx = 1
    /\ all_components = <<>>
    /\ runs = 1
    /\ aggregated = <<>>
    /\ outDir0 = outDirExists
    /\ outFile0 = outFile
    /\ opens = 0
    /\ fsWrites = 0
    /\ prevPc = "none"
    /\ prevOrder = <<>>
    /\ prevOut = NoFile

\* ---------------------------------------------------------------- main()
\* Lines 91-92.
CheckRoot_NoExit ==
    /\ pc = "start"
    /\ pc' = "mkdir"
    /\ exitCode' = exitCode
    /\ UNCHANGED <<fsvars, outDirExists, outFile, sbom_files, idx,
                   all_components, runs, aggregated, outDir0, outFile0, opens,
                   fsWrites, prevvars>>
CheckRoot ==
    /\ pc = "start"
    /\ IF rootExists
       THEN pc' = "mkdir" /\ exitCode' = exitCode
       ELSE pc' = "aborted" /\ exitCode' = 1
    /\ UNCHANGED <<fsvars, outDirExists, outFile, sbom_files, idx,
                   all_components, runs, aggregated, outDir0, outFile0, opens,
                   fsWrites, prevvars>>

\* Line 94: mkdir(parents=True, exist_ok=True).
MakeOutputDir ==
    /\ pc = "mkdir"
    /\ outDirExists' = TRUE
    /\ fsWrites' = IF outDirExists THEN fsWrites ELSE fsWrites + 1
    /\ pc' = "find"
    /\ UNCHANGED <<fsvars, outFile, exitCode, sbom_files, idx, all_components,
                   runs, aggregated, outDir0, outFile0, opens, prevvars>>

\* find_sbom_files: the *.json entries that are files, in the order the
\* directory traversal yields them.
Discovered == {p \in DOMAIN tree : MatchesJson(p) /\ tree[p].kind = "file"}
Orders(S) ==
    {s \in [1..Cardinality(S) -> S] : \A i, j \in DOMAIN s : i # j => s[i] # s[j]}

\* Lines 96-99.
FindSbomFiles ==
    /\ pc = "find"
    /\ all_components' = <<>>
    /\ sbom_files' \in Orders(Discovered)
    /\ idx' = 1
    /\ pc' = "loop"
    /\ UNCHANGED <<fsvars, outDirExists, outFile, exitCode, runs, aggregated,
                   outDir0, outFile0, opens, fsWrites, prevvars>>

\* Lines 101-104: one iteration of the loop over sbom_files.
ExtractOne_Overwrite ==
    /\ pc = "loop"
    /\ idx <= Len(sbom_files)
    /\ LET sbom == sbom_files[idx]
           comps == extract_components_from_sbom(sbom, tree[sbom].content)
       IN IF comps.ok
          THEN /\ all_components' = comps.val
               /\ idx' = idx + 1
               /\ UNCHANGED <<pc, exitCode>>
          ELSE /\ pc' = "crashed"
               /\ exitCode' = 1
               /\ UNCHANGED <<all_components, idx>>
    /\ UNCHANGED <<fsvars, outDirExists, outFile, sbom_files, runs, aggregated,
                   outDir0, outFile0, opens, fsWrites, prevvars>>
ExtractOne ==
    /\ pc = "loop"
    /\ idx <= Len(sbom_files)
    /\ LET sbom == sbom_files[idx]
           comps == extract_components_from_sbom(sbom, tree[sbom].content)
       IN IF comps.ok
          THEN /\ all_components' = all_components \o comps.val
               /\ idx' = idx + 1
               /\ UNCHANGED <<pc, exitCode>>
          ELSE /\ pc' = "crashed"
               /\ exitCode' = 1
               /\ UNCHANGED <<all_components, idx>>
    /\ UNCHANGED <<fsvars, outDirExists, outFile, sbom_files, runs, aggregated,
                   outDir0, outFile0, opens, fsWrites, prevvars>>

\* Line 106, reached when the loop is over.
SortAll ==
    /\ pc = "loop"
    /\ idx > Len(sbom_files)
    /\ IF SortRaises(all_components)
       THEN /\ pc' = "crashed"
            /\ exitCode' = 1
            /\ UNCHANGED <<all_components, aggregated>>
       ELSE /\ all_components' = SortedByKey(all_components)
            /\ aggregated' = all_components
            /\ pc' = "write"
            /\ UNCHANGED exitCode
    /\ UNCHANGED <<fsvars, outDirExists, outFile, sbom_files, idx, runs,
                   outDir0, outFile0, opens, fsWrites, prevvars>>

\* Lines 108-111: open(OUTPUT_FILE, "w") and json.dump; main returns.
WriteOutput_Append ==
    /\ pc = "write"
    /\ outFile' = FileOf((IF outFile.exists THEN outFile.records ELSE <<>>)
                         \o all_components)
    /\ opens' = opens + 1
    /\ fsWrites' = fsWrites + 1
    /\ pc' = "done"
    /\ exitCode' = 0
    /\ UNCHANGED <<fsvars, outDirExists, sbom_files, idx, all_components, runs,
                   aggregated, outDir0, outFile0, prevvars>>
WriteOutput ==
    /\ pc = "write"
    /\ outFile' = FileOf(all_components)
    /\ opens' = opens + 1
    /\ fsWrites' = fsWrites + 1
    /\ pc' = "done"
    /\ exitCode' = 0
    /\ UNCHANGED <<fsvars, outDirExists, sbom_files, idx, all_components, runs,
                   aggregated, outDir0, outFile0, prevvars>>

\* Lines 114-115: the program is started again on the filesystem as it is.
Rerun ==
    /\ pc \in {"done", "aborted", "crashed"}
    /\ runs < MaxRuns
    /\ runs' = runs + 1
    /\ pc' = "start"
    /\ exitCode' = -1
    /\ sbom_files' = <<>>
    /\ idx' = 1
    /\ all_components' = <<>>
    /\ aggregated' = <<>>
    /\ outDir0' = outDirExists
    /\ outFile0' = outFile
    /\ opens' = 0
    /\ fsWrites' = 0
    /\ prevPc' = pc
    /\ prevOrder' = sbom_files
    /\ prevOut' = outFile
    /\ UNCHANGED <<fsvars, outDirExists, outFile>>

Next ==
    \/ CheckRoot
    \/ MakeOutputDir
    \/ FindSbomFiles
    \/ ExtractOne
    \/ SortAll
    \/ WriteOutput
    \/ Rerun

Spec == Init /\ [][Next]_vars

\* ------------------------------------------------- reading the input tree
\* A member of a JSON object as the data model reads it.
Member(obj, key) == IF key \in DOMAIN obj.v THEN obj.v[key] ELSE Absent
IsString(x) == x.t = "str"
OptString(x) == x = Absent \/ IsString(x)
\* Present and non-empty.
NonEmptyString(x) == IsString(x) /\ x.v # <<>>
\* A missing optional string reads as the empty string.
OrEmpty(x) == IF x = Absent THEN EmptyStr ELSE x

\* The `components` entries of the document at path p (none when the file
\* does not parse, is no object, or has no `components` array).
EntriesAt(p) ==
    LET c == tree[p].content
    IN IF c.parse = "ok" /\ c.data.t = "obj"
          /\ Member(c.data, "components").t = "arr"
       THEN Member(c.data, "components").v
       ELSE <<>>

\* metadata.component.name of the document at path p, Absent when any level
\* of it is missing.
DeclaredNameAt(p) ==
    LET c == tree[p].content
        md == IF c.parse = "ok" /\ c.data.t = "obj"
              THEN Member(c.data, "metadata") ELSE Absent
        mc == IF md.t = "obj" THEN Member(md, "component") ELSE Absent
    IN IF mc.t = "obj" THEN Member(mc, "name") ELSE Absent

\* The CycloneDX-like shape of section 3 of the data model.
ValidLicenseEntry(e) ==
    /\ e.t = "obj"
    /\ LET lic == Member(e, "license")
       IN lic = Absent
          \/ (lic.t = "obj" /\ OptString(Member(lic, "id"))
                            /\ OptString(Member(lic, "name")))
ValidComponent(c) ==
    /\ c.t = "obj"
    /\ \A k \in {"name", "version", "group", "purl", "type"} : OptString(Member(c, k))
    /\ LET ls == Member(c, "licenses")
       IN ls = Absent
          \/ (ls.t = "arr" /\ \A i \in 1..Len(ls.v) : ValidLicenseEntry(ls.v[i]))
ValidSbom(content) ==
    /\ content.parse = "ok"
    /\ content.data.t = "obj"
    /\ LET md == Member(content.data, "metadata")
           mc == IF md.t = "obj" THEN Member(md, "component") ELSE Absent
       IN /\ md = Absent \/ md.t = "obj"
          /\ mc = Absent
             \/ (mc.t = "obj" /\ \A k \in {"name", "version", "group"} :
                                    OptString(Member(mc, k)))
    /\ LET cs == Member(content.data, "components")
       IN cs = Absent
          \/ (cs.t = "arr" /\ \A i \in 1..Len(cs.v) : ValidComponent(cs.v[i]))
ValidTree == \A p \in Discovered : ValidSbom(tree[p].content)

\* What identifies the component entry a record was made from.
EntryIdentity(p, c) ==
    <<JStr(JoinSlash(p)), OrEmpty(Member(c, "name")), OrEmpty(Member(c, "version")),
      OrEmpty(Member(c, "group")), OrEmpty(Member(c, "type")),
      OrEmpty(Member(c, "purl"))>>
RecordIdentity(r) ==
    <<r.sbom_path, r.component_name, r.component_version, r.component_group,
      r.component_type, r.purl>>
\* Every component entry of every discovered file.
AllEntries == UNION {{<<p, i>> : i \in 1..Len(EntriesAt(p))} : p \in Discovered}

\* ------------------------------------------------------------------ claims
\* C1: for a tree of valid CycloneDX-like documents main() completes, and
\* the output array holds exactly one record per component entry of every
\* file: as many records as there are entries, and each identity as often
\* among the records as among the entries.
ExactlyOnePerComponent ==
    (rootExists /\ ValidTree) =>
        /\ pc # "crashed"
        /\ pc = "done" =>
            LET out == outFile.records
                ids == {RecordIdentity(out[k]) : k \in 1..Len(out)}
                       \cup {EntryIdentity(e[1], EntriesAt(e[1])[e[2]]) : e \in AllEntries}
            IN /\ Len(out) = Cardinality(AllEntries)
               /\ \A t \in ids :
                    Cardinality({k \in 1..Len(out) : RecordIdentity(out[k]) = t})
                    = Cardinality({e \in AllEntries :
                                     EntryIdentity(e[1], EntriesAt(e[1])[e[2]]) = t})

\* Two valid files with components have been aggregated and written.
ExactlyOnePerComponentWitness ==
    /\ pc = "done"
    /\ ValidTree
    /\ Cardinality({p \in Discovered : EntriesAt(p) # <<>>}) >= 2
    /\ Len(outFile.records) >= 5

\* The key of a record and the order of two keys, as the claim states them.
ClaimedKey(r) == <<r.project_name, r.component_name, r.component_version>>
RECURSIVE TupleLeq(_, _)
TupleLeq(a, b) ==
    IF a = <<>> THEN TRUE
    ELSE IF Head(a) = Head(b) THEN TupleLeq(Tail(a), Tail(b))
    ELSE IsString(Head(a)) /\ IsString(Head(b)) /\ StrLess(Head(a).v, Head(b).v)

\* C2: in an output file that main() wrote, adjacent records are in
\* non-decreasing order of (project_name, component_name, component_version).
OutputSorted ==
    (pc = "done" \/ prevPc = "done") =>
        \A i \in 1..(Len(outFile.records) - 1) :
            TupleLeq(ClaimedKey(outFile.records[i]), ClaimedKey(outFile.records[i + 1]))

\* A written output whose order is not the order of aggregation, with two
\* adjacent records that differ only in the version.
OutputSortedWitness ==
    /\ pc = "done"
    /\ outFile.records # aggregated
    /\ \E i \in 1..(Len(outFile.records) - 1) :
          /\ outFile.records[i].project_name = outFile.records[i + 1].project_name
          /\ outFile.records[i].component_name = outFile.records[i + 1].component_name
          /\ outFile.records[i].component_version # outFile.records[i + 1].component_version

\* The files of an enumeration that can be read and parsed.
Readable(order) == SelectSeq(order, LAMBDA p : tree[p].content.parse = "ok")
\* The records of the given files, file after file.
RECURSIVE RecordsOf(_)
RecordsOf(order) ==
    IF order = <<>> THEN <<>>
    ELSE ExtractParsed(Head(order), tree[Head(order)].content.data).val
         \o RecordsOf(Tail(order))

\* C3: a file that cannot be read or parsed never ends the run, and what has
\* been aggregated, and what is written, is what the other files alone give.
UnreadableFileSkipped ==
    /\ (pc = "crashed" /\ idx <= Len(sbom_files)) =>
           tree[sbom_files[idx]].content.parse = "ok"
    /\ pc = "loop" =>
           all_components = RecordsOf(Readable(SubSeq(sbom_files, 1, idx - 1)))
    /\ pc = "done" =>
           outFile.records = SortedByKey(RecordsOf(Readable(sbom_files)))

\* A run that met an unparsable file and still wrote the other file's records.
UnreadableFileSkippedWitness ==
    /\ pc = "done"
    /\ \E i \in 1..Len(sbom_files) : tree[sbom_files[i]].content.parse = "error"
    /\ Len(outFile.records) > 0
    /\ exitCode = 0

\* C4: whenever the SBOM root exists the run ends with exit code 0,
\* whatever the *.json files under it hold.
NonZeroExitOnlyWhenRootMissing ==
    rootExists => (pc # "crashed" /\ exitCode # 1)

\* C5: without the SBOM root the run is over at once with a non-zero exit:
\* nothing discovered or extracted, the output directory not created, the
\* output file as it was.
MissingRootAborts ==
    (~rootExists /\ pc # "start") =>
        /\ pc = "aborted"
        /\ exitCode = 1
        /\ sbom_files = <<>>
        /\ all_components = <<>>
        /\ outDirExists = outDir0
        /\ outFile = outFile0
        /\ opens = 0
        /\ fsWrites = 0

\* The run has aborted and an earlier output file is still there.
MissingRootAbortsWitness ==
    /\ ~rootExists
    /\ pc = "aborted"
    /\ outFile = StaleFile

\* C6: the output file is opened for writing at most once, and only after
\* the loop over all files and the sort; a run that ends earlier has left
\* the output file as it was and has written nothing to the filesystem.
WritesAllOrNothing ==
    /\ opens <= 1
    /\ opens = 1 => (pc = "done" /\ idx > Len(sbom_files))
    /\ pc \in {"aborted", "crashed"} => (outFile = outFile0 /\ fsWrites = 0)

\* The identifier a license entry yields, Absent when it yields none.
LicenseIdentifier(e) ==
    LET lic == Member(e, "license")
    IN IF lic.t # "obj" THEN Absent
       ELSE IF NonEmptyString(Member(lic, "id")) THEN Member(lic, "id")
       ELSE IF NonEmptyString(Member(lic, "name")) THEN Member(lic, "name")
       ELSE Absent
\* The identifiers of a component's license entries, in source order.
ClaimedLicenses(c) ==
    LET ls == Member(c, "licenses")
        entries == IF ls.t = "arr" THEN ls.v ELSE <<>>
        ids == [i \in 1..Len(entries) |-> LicenseIdentifier(entries[i])]
    IN SelectSeq(ids, LAMBDA x : x # Absent)

StripExtension(name) ==
    LET dots == {i \in 1..Len(name) : name[i] = "."}
    IN IF dots = {} THEN name
       ELSE SubSeq(name, 1, (CHOOSE i \in dots : \A j \in dots : j <= i) - 1)
\* As amended: a last segment that is exactly ".json" is kept whole.
StripExtensionOfNamed(name) ==
    IF name = <<".", "j", "s", "o", "n">> THEN name ELSE StripExtension(name)
\* The path with its last segment replaced, joined with "/".
PathWithLast(p, last) ==
    JStr(JoinSlash([i \in 1..Len(p) |-> IF i = Len(p) THEN last ELSE p[i]]))
\* The records held in memory or written, with the path of their file.
RecordsNow == IF pc = "done" THEN outFile.records ELSE all_components
PathOfRecord(r) == CHOOSE p \in Discovered : JStr(JoinSlash(p)) = r.sbom_path

\* C8 as stated: project_name is metadata.component.name when present and
\* non-empty, else the relative path with the extension stripped from the
\* last segment, joined with "/"; it is a non-empty string in both cases.
ProjectNameAsStated ==
    \A k \in 1..Len(RecordsNow) :
        LET r == RecordsNow[k]
            p == PathOfRecord(r)
        IN /\ r.project_name =
                  IF NonEmptyString(DeclaredNameAt(p)) THEN DeclaredNameAt(p)
                  ELSE PathWithLast(p, StripExtension(p[Len(p)]))
           /\ NonEmptyString(r.project_name)

\* C8 as amended: the same, but a last segment that is exactly ".json" has
\* no extension to strip and is kept whole.
ProjectNameAmended ==
    \A k \in 1..Len(RecordsNow) :
        LET r == RecordsNow[k]
            p == PathOfRecord(r)
        IN /\ r.project_name =
                  IF NonEmptyString(DeclaredNameAt(p)) THEN DeclaredNameAt(p)
                  ELSE PathWithLast(p, StripExtensionOfNamed(p[Len(p)]))
           /\ NonEmptyString(r.project_name)

\* teams/alpha/sbom.json without a declared name gives teams/alpha/sbom, and
\* teams/.json without one gives teams/.json.
ProjectNameWitness ==
    /\ pc = "done"
    /\ \E k \in 1..Len(outFile.records) :
          /\ outFile.records[k].sbom_path = JStr(JoinSlash(PathTeams))
          /\ outFile.records[k].project_name =
                 JStr(<<"t", "e", "a", "m", "s", "/", "a", "l", "p", "h", "a",
                        "/", "s", "b", "o", "m">>)
    /\ \E k \in 1..Len(outFile.records) :
          /\ outFile.records[k].sbom_path = JStr(JoinSlash(PathDot))
          /\ outFile.records[k].project_name =
                 JStr(<<"t", "e", "a", "m", "s", "/", ".", "j", "s", "o", "n">>)

\* How often a record occurs in a sequence.
Occurrences(rs, r) == Cardinality({k \in 1..Len(rs) : rs[k] = r})

\* C9 as stated: a second run over the unchanged tree writes the same record
\* sequence as the first, whatever order the traversal yields the files in.
RerunIdentical ==
    (pc = "done" /\ prevPc = "done") => outFile = prevOut

\* C9 as amended: the second run writes the same sequence when the traversal
\* yields the files in the same order as in the first run, whatever the
\* first run left in the output file; in any order it writes the same
\* records, with the same key at every position.
RerunIdenticalInSameOrder ==
    (pc = "done" /\ prevPc = "done") =>
        /\ sbom_files = prevOrder => outFile = prevOut
        /\ Len(outFile.records) = Len(prevOut.records)
        /\ \A k \in 1..Len(outFile.records) :
              /\ ClaimedKey(outFile.records[k]) = ClaimedKey(prevOut.records[k])
              /\ Occurrences(outFile.records, outFile.records[k])
                 = Occurrences(prevOut.records, outFile.records[k])

\* A second run over two files with records, in the order of the first run.
RerunIdenticalWitness ==
    /\ pc = "done"
    /\ prevPc = "done"
    /\ sbom_files = prevOrder
    /\ Len(sbom_files) >= 2
    /\ Len(outFile.records) >= 2
    /\ outFile0 # NoFile

\* C10: records with equal keys are written in the order in which they were
\* aggregated, which is the order of discovery of their files and, within a
\* file, the order of its component entries.
SortIsStable ==
    pc \in {"write", "done"} =>
        /\ aggregated = RecordsOf(Readable(sbom_files))
        /\ \A k \in 1..Len(aggregated) :
              SelectSeq(all_components,
                        LAMBDA r : ClaimedKey(r) = ClaimedKey(aggregated[k]))
              = SelectSeq(aggregated,
                          LAMBDA r : ClaimedKey(r) = ClaimedKey(aggregated[k]))

\* Written: two different records with the same key, from different files,
\* in an output that the sort had to reorder.
SortIsStableWitness ==
    /\ pc = "done"
    /\ outFile.records # aggregated
    /\ \E i, j \in 1..Len(outFile.records) :
          /\ i < j
          /\ ClaimedKey(outFile.records[i]) = ClaimedKey(outFile.records[j])
          /\ outFile.records[i].sbom_path # outFile.records[j].sbom_path

====
